---- MODULE Spec2Model ----
(***************************************************************************)
(* State-machine model of the code relationship graph engine of            *)
(* src/mcp_server/enhanced_code_graph_server.py (EnhancedCodeGraphServer   *)
(* and the tool dispatcher handle_call_tool).                              *)
(*                                                                         *)
(* Strings are TLA+ strings; ids and messages are built with \o exactly as *)
(* the f-strings of the source build them.  The string functions the code  *)
(* uses (upper, lower, endswith, startswith, Path.suffix, Path.stem,       *)
(* Path.parent) are tables over the finite universe of names that occur in *)
(* the modelled file systems.  A source line is the record of what the     *)
(* regular expressions of the extractors capture on it.                    *)
(***************************************************************************)
EXTENDS Integers, Sequences, FiniteSets, TLC

VARIABLES
    workspace,      \* the paths the client of this server names in its calls
    nodes,          \* self.nodes: dict id -> CodeNode, in insertion order
    relationships,  \* self.relationships: list of CodeRelationship
    patterns,       \* self.patterns: list of CodePattern
    db_nodes,       \* durable table code_nodes (primary key id)
    db_rels,        \* durable table code_relationships (autoincrement key)
    call,           \* the tool call handled last, with the store before it
    result,         \* what that call returned or raised
    calls,          \* number of calls handled so far (all, and analyze calls)
    db_failures,    \* number of durable-store write failures so far
    running         \* the analyze call in progress: its locals between files

vars == <<workspace, nodes, relationships, patterns, db_nodes, db_rels,
          call, result, calls, db_failures, running>>

-----------------------------------------------------------------------------
(* Bounds of the model *)

\* longest file_paths list of one analyze call
MaxPaths == 2
\* most tool calls in one behaviour
MaxCalls == 3
\* most analyze calls in one behaviour
MaxAnalyze == 2
\* cap on the length of self.relationships
MaxRels == 6
\* most durable-store write failures in one behaviour
MaxDbFailures == 1

-----------------------------------------------------------------------------
(* Values *)

\* Python's None (current_namespace, current_class before any declaration)
None == "<None>"

\* CodeRelationship.confidence default, in hundredths (1.0)
DefaultConfidence == 100

\* Seq helpers
Range(s) == {s[i] : i \in DOMAIN s}

RECURSIVE Concat(_)
Concat(ss) == IF ss = <<>> THEN <<>> ELSE Head(ss) \o Concat(Tail(ss))

IsPrefix(a, b) == Len(a) <= Len(b) /\ SubSeq(b, 1, Len(a)) = a

Count(s, x) == Cardinality({i \in DOMAIN s : s[i] = x})

\* a and b hold the same elements the same number of times
SameBag(a, b) == \A x \in Range(a) \cup Range(b) : Count(a, x) = Count(b, x)

-----------------------------------------------------------------------------
(* String functions of the source, as tables over the names in use *)

\* str.upper() on the identifiers of the schema files
Upper(s) ==
    CASE s = "sp_GetProducts"  -> "SP_GETPRODUCTS"
      [] s = "Products"        -> "PRODUCTS"
      [] s = "products"        -> "PRODUCTS"
      [] s = "sp_GetCustomers" -> "SP_GETCUSTOMERS"
      [] s = "Customers"       -> "CUSTOMERS"
      [] OTHER                 -> s

\* str.lower() on entity and page names
Lower(s) ==
    CASE s = "Product"  -> "product"
      [] s = "Products" -> "products"
      [] s = "Order"    -> "order"
      [] s = "Customer" -> "customer"
      [] s = "About"    -> "about"
      [] OTHER          -> s

\* name.endswith('Manager')
EndsWithManager(s) ==
    s \in {"ProductManager", "OrderManager", "CustomerManager", "Manager"}

\* name[:-7]
StripManager(s) ==
    CASE s = "ProductManager"  -> "Product"
      [] s = "OrderManager"    -> "Order"
      [] s = "CustomerManager" -> "Customer"
      [] s = "Manager"         -> ""
      [] OTHER                 -> s

\* s.startswith('sp_') or s.startswith('usp_')
HasProcPrefix(s) == s \in {"sp_GetProducts", "sp_GetCustomers", "usp_SaveProduct"}

\* s.strip('[]')
StripBrackets(s) ==
    CASE s = "[PRODUCTS]" -> "PRODUCTS"
      [] OTHER            -> s

\* Path(p).suffix
Suffix(p) ==
    CASE p \in {"app/ProductManager.cs", "app/Missing.cs",
                "examples/sample_manager.cs", "app/Calculator.cs",
                "examples/customer_manager.cs"}             -> ".cs"
      [] p \in {"web/Products.aspx", "admin/Products.aspx",
                "web/About.aspx"}                           -> ".aspx"
      [] p \in {"db/procs.sql", "db/blob.sql",
                "examples/sample_procedure.sql"}            -> ".sql"
      [] OTHER                                              -> ""

\* Path(p).stem
Stem(p) ==
    CASE p = "web/Products.aspx"   -> "Products"
      [] p = "admin/Products.aspx" -> "Products"
      [] p = "web/About.aspx"      -> "About"
      [] OTHER                     -> p

\* str(Path(p).parent)
Parent(p) ==
    CASE p = "web/Products.aspx"   -> "web"
      [] p = "admin/Products.aspx" -> "admin"
      [] p = "web/About.aspx"      -> "web"
      [] OTHER                     -> "."

-----------------------------------------------------------------------------
(* Source lines: what the extractors' regular expressions capture *)

\* a line of a procedural-code file on which nothing matches
CsBlank ==
    [namespace_match |-> None, class_match |-> None, method_match |-> None,
     words |-> {}, is_comment |-> FALSE, db_keyword |-> FALSE, quoted |-> None]

CsNamespaceLine(n) == [CsBlank EXCEPT !.namespace_match = n]
CsClassLine(w, n)  == [CsBlank EXCEPT !.class_match = n, !.words = w]
CsMethodLine(w, n) == [CsBlank EXCEPT !.method_match = n, !.words = w]
CsDbLine(q)        == [CsBlank EXCEPT !.db_keyword = TRUE, !.quoted = q]

\* a line of a markup file: the CodeBehind attribute and the <asp:..> controls
\* on it, each with the attribute spelling (ID or id) that matched
AspxLine(cb, cs) == [codebehind |-> cb, controls |-> cs]
Control(t, a, i) == [control_type |-> t, attr |-> a, control_id |-> i]

\* a line of a schema file: the identifier after CREATE PROCEDURE (any letter
\* case of the keywords) and the identifiers after FROM/JOIN/UPDATE/INSERT INTO
SqlLine(p, ts) == [create_procedure |-> p, table_refs |-> ts]

\* files
Missing   == [kind |-> "missing",   lines |-> <<>>]
Directory == [kind |-> "directory", lines |-> <<>>]
Binary    == [kind |-> "binary",    lines |-> <<>>]
Text(ls)  == [kind |-> "text",      lines |-> ls]

ProductManagerCs ==
    Text(<< CsNamespaceLine("Shop"),
            CsClassLine({"public"}, "ProductManager"),
            CsMethodLine({"public"}, "GetProducts"),
            CsDbLine("sp_GetProducts") >>)

ProductsAspx ==
    Text(<< AspxLine("Products.aspx.cs", <<>>),
            AspxLine(None, << Control("GridView", "ID", "grid") >>),
            AspxLine(None, << Control("Button", "ID", "save") >>) >>)

ProcsSql ==
    Text(<< SqlLine("sp_GetProducts", <<>>),
            SqlLine(None, << "Products" >>) >>)

\* a page of the same name in another directory
AdminProductsAspx ==
    Text(<< AspxLine("Products.aspx.cs", << Control("Button", "id", "delete") >>) >>)

\* the sample manager file of the quick start: the lines on which a pattern
\* of the extractor matches (the using, brace, comment, return and property
\* lines match none)
SampleManagerCs ==
    Text(<< CsNamespaceLine("YourApp.BusinessLogic"),
            CsClassLine({"public"}, "CustomerManager"),
            CsMethodLine({"public"}, "GetCustomers"),
            CsClassLine({"public"}, "Customer") >>)

\* the sample procedure file of the quick start
SampleProcedureSql ==
    Text(<< SqlLine(None, <<>>),
            SqlLine("sp_GetCustomers", <<>>),
            SqlLine(None, << "Customers" >>) >>)

\* a file of a namespace, a class and one method with a return type; the
\* using, brace, comment and return lines match no pattern
CustomerManagerCs ==
    Text(<< CsBlank, CsBlank, CsBlank,
            CsNamespaceLine("App.BusinessLogic"),
            CsBlank,
            CsClassLine({"public"}, "CustomerManager"),
            CsBlank,
            CsMethodLine({"public"}, "GetCustomers") >>)

\* a class with two overloads of one method name
CalculatorCs ==
    Text(<< CsClassLine({"public"}, "Calculator"),
            CsBlank,
            CsMethodLine({"public"}, "Add"),
            CsBlank, CsBlank, CsBlank,
            CsMethodLine({"public"}, "Add") >>)

\* a page with a CodeBehind attribute and no control
AboutAspx ==
    Text(<< AspxLine("About.aspx.cs", <<>>) >>)

\* the file system the server reads: path -> file.  No call of the server
\* changes the files it analyzes.
FS ==
    [p \in {"app/ProductManager.cs", "web/Products.aspx", "app/Missing.cs",
            "db/procs.sql", "db", "db/blob.sql", "admin/Products.aspx",
            "examples/sample_manager.cs", "examples/sample_procedure.sql",
            "examples/customer_manager.cs", "app/Calculator.cs",
            "web/About.aspx"} |->
        CASE p = "app/ProductManager.cs"         -> ProductManagerCs
          [] p = "web/Products.aspx"             -> ProductsAspx
          [] p = "app/Missing.cs"                -> Missing
          [] p = "db/procs.sql"                  -> ProcsSql
          [] p = "db"                            -> Directory
          [] p = "admin/Products.aspx"           -> AdminProductsAspx
          [] p = "examples/sample_manager.cs"    -> SampleManagerCs
          [] p = "examples/sample_procedure.sql" -> SampleProcedureSql
          [] p = "examples/customer_manager.cs"  -> CustomerManagerCs
          [] p = "app/Calculator.cs"             -> CalculatorCs
          [] p = "web/About.aspx"                -> AboutAspx
          [] OTHER                               -> Binary]

\* the sets of paths a client works with
Workspaces ==
    { {"app/ProductManager.cs", "web/Products.aspx"},
      {"app/ProductManager.cs", "app/Missing.cs"},
      {"db/procs.sql", "db", "db/blob.sql"},
      {"app/ProductManager.cs", "db/procs.sql"},
      {"app/ProductManager.cs", "examples/sample_manager.cs"},
      {"web/Products.aspx", "admin/Products.aspx"},
      {"examples/sample_procedure.sql"},
      {"examples/customer_manager.cs"},
      {"app/Calculator.cs"},
      {"web/About.aspx", "web/Products.aspx"} }

Paths == workspace

\* Path(p).exists()
Exists(fs, p) == fs[p].kind # "missing"

-----------------------------------------------------------------------------
(* Data model: CodeNode, CodeRelationship, CodePattern *)

CodeNode(id, name, node_type, file_path, line_number, metadata) ==
    [id |-> id, name |-> name, node_type |-> node_type, file_path |-> file_path,
     line_number |-> line_number, metadata |-> metadata]

\* confidence is never passed by the extractors: the dataclass default applies
CodeRelationship(source_id, target_id, relationship_type, metadata) ==
    [source_id |-> source_id, target_id |-> target_id,
     relationship_type |-> relationship_type, metadata |-> metadata,
     confidence |-> DefaultConfidence]

\* files is list(set(...)): its order is unspecified, so it is kept as a set;
\* similarity_score is in hundredths
CodePattern(pattern_id, pattern_type, files, ns, rels, template_data, score) ==
    [pattern_id |-> pattern_id, pattern_type |-> pattern_type, files |-> files,
     nodes |-> ns, relationships |-> rels, template_data |-> template_data,
     similarity_score |-> score]

NodeIds(ns) == {ns[i].id : i \in DOMAIN ns}

-----------------------------------------------------------------------------
(* Procedural-code extractor *)

\* words is the set of modifier words that occur in the line
_extract_access_modifier(words) ==
    IF "private" \in words THEN "private"
    ELSE IF "protected" \in words THEN "protected"
    ELSE IF "internal" \in words THEN "internal"
    ELSE IF "public" \in words THEN "public"
    ELSE "default"

\* scope state at the top of the scan; in_method is set here and nowhere else
\* (brace_count is counted by the source and never read)
CsInit ==
    [current_namespace |-> None, current_class |-> None, in_method |-> FALSE,
     nodes |-> <<>>, relationships |-> <<>>]

CsNamespace(fp, line_num, line, st) ==
    IF line.namespace_match # None
    THEN [st EXCEPT
            !.current_namespace = line.namespace_match,
            !.nodes = Append(@, CodeNode(fp \o ":namespace:" \o line.namespace_match,
                                         line.namespace_match, "namespace", fp,
                                         line_num, [scope |-> "namespace"]))]
    ELSE st

\* mutant: the class node is added without its namespace-class relationship
CsClass_NoEdge(fp, line_num, line, st) ==
    IF line.class_match # None
    THEN [st EXCEPT
            !.current_class = line.class_match,
            !.nodes = Append(@, CodeNode(fp \o ":class:" \o line.class_match,
                         line.class_match, "class", fp, line_num,
                         [namespace |-> st.current_namespace,
                          access_modifier |-> _extract_access_modifier(line.words)]))]
    ELSE st

CsClass(fp, line_num, line, st) ==
    IF line.class_match # None
    THEN LET node_id == fp \o ":class:" \o line.class_match
         IN [st EXCEPT
               !.current_class = line.class_match,
               !.nodes = Append(@, CodeNode(node_id, line.class_match, "class", fp,
                            line_num,
                            [namespace |-> st.current_namespace,
                             access_modifier |-> _extract_access_modifier(line.words)])),
               !.relationships =
                   IF st.current_namespace # None
                   THEN Append(@, CodeRelationship(
                            fp \o ":namespace:" \o st.current_namespace, node_id,
                            "contains", [scope |-> "namespace_contains_class"]))
                   ELSE @]
    ELSE st

\* mutant: the method node is added without its class-method relationship
CsMethod_NoEdge(fp, line_num, line, st) ==
    IF line.method_match # None /\ st.current_class # None /\ ~line.is_comment
    THEN [st EXCEPT
            !.nodes = Append(@, CodeNode(
                         fp \o ":method:" \o st.current_class \o ":" \o line.method_match,
                         line.method_match, "method", fp, line_num,
                         [class |-> st.current_class,
                          access_modifier |-> _extract_access_modifier(line.words),
                          is_static |-> "static" \in line.words,
                          is_async |-> "async" \in line.words]))]
    ELSE st

CsMethod(fp, line_num, line, st) ==
    IF line.method_match # None /\ st.current_class # None /\ ~line.is_comment
    THEN LET node_id == fp \o ":method:" \o st.current_class \o ":" \o line.method_match
         IN [st EXCEPT
               !.nodes = Append(@, CodeNode(node_id, line.method_match, "method", fp,
                            line_num,
                            [class |-> st.current_class,
                             access_modifier |-> _extract_access_modifier(line.words),
                             is_static |-> "static" \in line.words,
                             is_async |-> "async" \in line.words])),
               !.relationships = Append(@, CodeRelationship(
                            fp \o ":class:" \o st.current_class, node_id,
                            "contains", [scope |-> "class_contains_method"]))]
    ELSE st

CsDatabase(fp, line_num, line, st) ==
    IF line.db_keyword /\ line.quoted # None /\ HasProcPrefix(line.quoted)
    THEN LET proc_node_id == "database:procedure:" \o line.quoted
         IN [st EXCEPT
               !.nodes =
                   IF proc_node_id \notin NodeIds(st.nodes)
                   THEN Append(@, CodeNode(proc_node_id, line.quoted, "stored_procedure",
                                    "database", 0, [database_object |-> TRUE]))
                   ELSE @,
               !.relationships =
                   IF st.in_method /\ st.current_class # None
                   THEN Append(@, CodeRelationship(
                            fp \o ":method:" \o st.current_class \o ":*", proc_node_id,
                            "database_access", [line_number |-> line_num]))
                   ELSE @]
    ELSE st

\* one iteration of the line loop
CsLine(fp, line_num, line, st) ==
    CsDatabase(fp, line_num, line,
        CsMethod(fp, line_num, line,
            CsClass(fp, line_num, line,
                CsNamespace(fp, line_num, line, st))))

RECURSIVE CsScan(_, _, _, _)
CsScan(fp, lines, i, st) ==
    IF i > Len(lines) THEN st
    ELSE CsScan(fp, lines, i + 1, CsLine(fp, i, lines[i], st))

CsReturn(st) == [nodes |-> st.nodes, relationships |-> st.relationships]

_analyze_csharp_detailed(fp, lines) == CsReturn(CsScan(fp, lines, 1, CsInit))

-----------------------------------------------------------------------------
(* Markup extractor *)

\* re.search(r'CodeBehind="([^"]+)"', content): the first line that carries one
RECURSIVE FirstCodeBehind(_, _)
FirstCodeBehind(lines, i) ==
    IF i > Len(lines) THEN None
    ELSE IF lines[i].codebehind # None THEN lines[i].codebehind
    ELSE FirstCodeBehind(lines, i + 1)

\* the matches on one line: first those of the ID="..." pattern, then id="..."
ControlMatches(line) ==
    SelectSeq(line.controls, LAMBDA c : c.attr = "ID")
        \o SelectSeq(line.controls, LAMBDA c : c.attr = "id")

RECURSIVE AspxControls(_, _, _, _, _)
\* the matches ms[k..] of line line_num
AspxControls(fp, page_node_id, line_num, ms, st) ==
    IF ms = <<>> THEN st
    ELSE LET control_node_id == fp \o ":control:" \o Head(ms).control_id
         IN AspxControls(fp, page_node_id, line_num, Tail(ms),
               [nodes |-> Append(st.nodes,
                    CodeNode(control_node_id, Head(ms).control_id, "aspx_control", fp,
                             line_num, [control_type |-> Head(ms).control_type])),
                relationships |-> Append(st.relationships,
                    CodeRelationship(page_node_id, control_node_id, "contains",
                                     [scope |-> "page_contains_control"]))])

RECURSIVE AspxScan(_, _, _, _, _)
AspxScan(fp, page_node_id, lines, i, st) ==
    IF i > Len(lines) THEN st
    ELSE AspxScan(fp, page_node_id, lines, i + 1,
            AspxControls(fp, page_node_id, i, ControlMatches(lines[i]), st))

\* the page node and the codebehind relationship, before the control scan
AspxPage(fp, page_name, page_node_id, codebehind_file, codebehind_path) ==
    [nodes |-> << CodeNode(page_node_id, page_name, "aspx_page", fp, 1,
                           [page_type |-> "aspx"]) >>,
     relationships |->
        IF codebehind_file # None
        THEN << CodeRelationship(page_node_id, codebehind_path \o ":class:*",
                    "codebehind", [codebehind_file |-> codebehind_path]) >>
        ELSE <<>>]

AspxStart(fp, page_name, codebehind_file) ==
    AspxPage(fp, page_name, fp \o ":page:" \o page_name, codebehind_file,
             Parent(fp) \o "/" \o codebehind_file)

_analyze_aspx_detailed(fp, lines) ==
    AspxScan(fp, fp \o ":page:" \o Stem(fp), lines, 1,
             AspxStart(fp, Stem(fp), FirstCodeBehind(lines, 1)))

-----------------------------------------------------------------------------
(* Schema extractor: every match is taken on line.upper() *)

SqlProcedure(fp, line_num, line, ns) ==
    IF line.create_procedure # None
    THEN LET proc_name == StripBrackets(Upper(line.create_procedure))
         IN Append(ns, CodeNode("database:procedure:" \o proc_name, proc_name,
                                "stored_procedure", fp, line_num,
                                [database_object |-> TRUE]))
    ELSE ns

RECURSIVE SqlTables(_, _)
SqlTables(refs, ns) ==
    IF refs = <<>> THEN ns
    ELSE LET table_name    == StripBrackets(Upper(Head(refs)))
             table_node_id == "database:table:" \o table_name
         IN SqlTables(Tail(refs),
               IF table_node_id \notin NodeIds(ns)
               THEN Append(ns, CodeNode(table_node_id, table_name, "table",
                                        "database", 0, [database_object |-> TRUE]))
               ELSE ns)

RECURSIVE SqlScan(_, _, _, _)
SqlScan(fp, lines, i, ns) ==
    IF i > Len(lines) THEN ns
    ELSE SqlScan(fp, lines, i + 1,
            SqlTables(lines[i].table_refs, SqlProcedure(fp, i, lines[i], ns)))

_analyze_sql_detailed(fp, lines) ==
    [nodes |-> SqlScan(fp, lines, 1, <<>>), relationships |-> <<>>]

-----------------------------------------------------------------------------
(* Source scanner *)

\* open(file_path, encoding='utf-8').read() and the dispatch on the suffix.
\* Only UnicodeDecodeError is caught here; opening a directory raises
\* IsADirectoryError, which leaves the function.
\* the function returns the pair r, or an exception leaves it
Returned(r) ==
    [raised |-> FALSE, error |-> None, nodes |-> r.nodes, relationships |-> r.relationships]
Raised(e) ==
    [raised |-> TRUE, error |-> e, nodes |-> <<>>, relationships |-> <<>>]
Nothing == [nodes |-> <<>>, relationships |-> <<>>]

_analyze_file_detailed(fs, fp) ==
    CASE fs[fp].kind = "directory" -> Raised("[Errno 21] Is a directory: '" \o fp \o "'")
      [] fs[fp].kind = "binary" -> Returned(Nothing)
      [] OTHER ->
           CASE Suffix(fp) = ".cs"   -> Returned(_analyze_csharp_detailed(fp, fs[fp].lines))
             [] Suffix(fp) = ".aspx" -> Returned(_analyze_aspx_detailed(fp, fs[fp].lines))
             [] Suffix(fp) = ".sql"  -> Returned(_analyze_sql_detailed(fp, fs[fp].lines))
             [] OTHER                -> Returned(Nothing)

\* analysis_results at the top of a call
NewResults ==
    [files_analyzed |-> 0, nodes_created |-> 0, relationships_found |-> 0,
     patterns_identified |-> 0, errors |-> <<>>]

\* mutant: a node whose id is stored already is dropped
UpsertNode_KeepFirst(ns, node) ==
    IF node.id \in NodeIds(ns) THEN ns ELSE Append(ns, node)

\* mutant: the store is a list and every node is appended
UpsertNode_Append(ns, node) == Append(ns, node)

\* self.nodes[node.id] = node: a dict keeps the position of a key it has
UpsertNode(ns, node) ==
    IF node.id \in NodeIds(ns)
    THEN [i \in DOMAIN ns |-> IF ns[i].id = node.id THEN node ELSE ns[i]]
    ELSE Append(ns, node)

RECURSIVE AddNodes(_, _)
AddNodes(ns, new) ==
    IF new = <<>> THEN ns ELSE AddNodes(UpsertNode(ns, Head(new)), Tail(new))

\* mutant: a relationship equal to a stored one is skipped
AddRelationships_Dedup(rels, new) ==
    rels \o SelectSeq(new, LAMBDA r : r \notin Range(rels))

\* self.relationships.append(rel) for each rel
AddRelationships(rels, new) == rels \o new

\* mutant: a missing path is skipped without an error and counted
FileNotFound_Counted(st, fp) ==
    [st EXCEPT !.results.files_analyzed = @ + 1]

\* the branch of a path that does not exist
FileNotFound(st, fp) ==
    [st EXCEPT !.results.errors = Append(@, "File not found: " \o fp)]

\* the except branch
\* mutant: a file whose analysis raised is counted as analyzed too
AnalyzeError_Counted(st, fp, e) ==
    [st EXCEPT !.results.errors = Append(@, "Error analyzing " \o fp \o ": " \o e),
               !.results.files_analyzed = @ + 1]

AnalyzeError(st, fp, e) ==
    [st EXCEPT !.results.errors = Append(@, "Error analyzing " \o fp \o ": " \o e)]

\* the rest of the try block, r being what _analyze_file_detailed gave
Ingest(st, fp, r) ==
    IF r.raised THEN AnalyzeError(st, fp, r.error)
    ELSE [nodes |-> AddNodes(st.nodes, r.nodes),
          relationships |-> AddRelationships(st.relationships, r.relationships),
          results |-> [st.results EXCEPT
              !.nodes_created = @ + Len(r.nodes),
              !.relationships_found = @ + Len(r.relationships),
              !.files_analyzed = @ + 1]]

\* _analyze_file_detailed on every path of FS, evaluated once: the files do
\* not change, so what a path yields is the same at every call
Extraction == [p \in DOMAIN FS |-> _analyze_file_detailed(FS, p)]

\* one iteration of the loop over file_paths; st = the store and the results
AnalyzeFile(st, fp) ==
    IF ~Exists(FS, fp) THEN FileNotFound(st, fp)
    ELSE Ingest(st, fp, Extraction[fp])

RECURSIVE AnalyzeLoop_Abort(_, _)
AbortOnError(st, next, rest) ==
    IF Len(next.results.errors) > Len(st.results.errors) THEN next
    ELSE AnalyzeLoop_Abort(next, rest)

\* mutant: the loop ends at the first path that gives an error
AnalyzeLoop_Abort(st, file_paths) ==
    IF file_paths = <<>> THEN st
    ELSE AbortOnError(st, AnalyzeFile(st, Head(file_paths)), Tail(file_paths))

RECURSIVE AnalyzeLoop(_, _)
AnalyzeLoop(st, file_paths) ==
    IF file_paths = <<>> THEN st
    ELSE AnalyzeLoop(AnalyzeFile(st, Head(file_paths)), Tail(file_paths))

-----------------------------------------------------------------------------
(* Durable mirror *)

\* json.dumps(metadata): the metadata as JSON text
JsonDumps(m) == <<"json", m>>

NodeRow(n) ==
    [id |-> n.id, name |-> n.name, node_type |-> n.node_type,
     file_path |-> n.file_path, line_number |-> n.line_number,
     metadata |-> JsonDumps(n.metadata)]

RelRow(r) ==
    [source_id |-> r.source_id, target_id |-> r.target_id,
     relationship_type |-> r.relationship_type,
     metadata |-> JsonDumps(r.metadata), confidence |-> r.confidence]

\* INSERT OR REPLACE INTO code_nodes
InsertOrReplace(tbl, row) == {r \in tbl : r.id # row.id} \cup {row}

RECURSIVE SaveNodes(_, _)
SaveNodes(tbl, ns) ==
    IF ns = <<>> THEN tbl ELSE SaveNodes(InsertOrReplace(tbl, NodeRow(Head(ns))), Tail(ns))

\* INSERT INTO code_relationships, once for every entry of self.relationships
SaveRelationships(tbl, rels) == tbl \o [i \in DOMAIN rels |-> RelRow(rels[i])]

\* where a write to the durable store raises in the model: at the first
\* statement, at the first relationship statement, or at the commit
WriteFailures == {"first_statement", "first_relationship", "commit"}

\* The tables as the server's connection sees them.  fail = "none": every
\* statement and the commit ran.  Otherwise the statements before the failing
\* one ran; their rows stay in the connection's open transaction.
_save_analysis_to_db(db, ns, rels, fail) ==
    [db_nodes |-> SaveNodes(db.db_nodes,
                            IF fail = "first_statement" THEN <<>> ELSE ns),
     db_rels  |-> SaveRelationships(db.db_rels,
                            IF fail \in {"none", "commit"} THEN rels ELSE <<>>)]

-----------------------------------------------------------------------------
(* Pattern recognizer *)

RECURSIVE Dedup(_)
\* the keys of a dict filled in the order of s: first occurrences, in order
Dedup(s) ==
    IF s = <<>> THEN <<>>
    ELSE LET rest == Dedup(SubSeq(s, 1, Len(s) - 1))
         IN IF s[Len(s)] \in Range(rest) THEN rest ELSE Append(rest, s[Len(s)])

\* the pattern of one entity_groups item
CrudPattern(entity_name, group, rels) ==
    CodePattern("crud_" \o Lower(entity_name), "database_crud",
        {group[i].file_path : i \in DOMAIN group},
        group,
        SelectSeq(rels, LAMBDA rel : \E i \in DOMAIN group :
                      rel.source_id = group[i].id \/ rel.target_id = group[i].id),
        [entity_name |-> entity_name, table_name |-> entity_name \o "s",
         primary_key |-> entity_name \o "ID",
         manager_class |-> entity_name \o "Manager"],
        80)

\* managers: the class nodes named ...Manager, in the order of self.nodes;
\* entity_names: the keys of entity_groups, in insertion order
CrudPatterns(managers, entity_names, rels) ==
    [i \in DOMAIN entity_names |->
        CrudPattern(entity_names[i],
                    SelectSeq(managers, LAMBDA n : StripManager(n.name) = entity_names[i]),
                    rels)]

\* mutant: entity_groups is overwritten by each manager class
EntityNames_Last(managers) ==
    IF managers = <<>> THEN <<>>
    ELSE << StripManager(managers[Len(managers)].name) >>

EntityNames(managers) ==
    Dedup([i \in DOMAIN managers |-> StripManager(managers[i].name)])

CrudGroups(managers, rels) == CrudPatterns(managers, EntityNames(managers), rels)

_find_crud_patterns(ns, rels) ==
    CrudGroups(SelectSeq(ns, LAMBDA n : n.node_type = "class" /\ EndsWithManager(n.name)),
               rels)

\* self.nodes[other_node_id] when the id is a key, else nothing
Lookup(ns, other_node_id) ==
    IF other_node_id \in NodeIds(ns)
    THEN << CHOOSE n \in Range(ns) : n.id = other_node_id >>
    ELSE <<>>

\* what one relationship appends to related_nodes
RelatedNode(ns, page_id, rel) ==
    IF rel.source_id = page_id \/ rel.target_id = page_id
    THEN Lookup(ns, IF rel.source_id = page_id THEN rel.target_id ELSE rel.source_id)
    ELSE <<>>

RECURSIVE RelatedNodes(_, _, _)
\* the nodes appended to related_nodes by the loop over self.relationships
RelatedNodes(ns, page_id, rels) ==
    IF rels = <<>> THEN <<>>
    ELSE RelatedNode(ns, page_id, Head(rels)) \o RelatedNodes(ns, page_id, Tail(rels))

\* mutant: a pattern is emitted for every page
PagePattern_Always(page_node, related_nodes, related_relationships) ==
    << CodePattern("page_" \o Lower(page_node.name), "aspx_page",
           {related_nodes[i].file_path : i \in DOMAIN related_nodes},
           related_nodes,
           related_relationships,
           [page_name |-> page_node.name,
            control_count |-> Len(SelectSeq(related_nodes,
                                   LAMBDA n : n.node_type = "aspx_control"))],
           70) >>

\* the pattern of one page, emitted when something besides the page is related
PagePattern(page_node, related_nodes, related_relationships) ==
    IF Len(related_nodes) > 1
    THEN << CodePattern("page_" \o Lower(page_node.name), "aspx_page",
                {related_nodes[i].file_path : i \in DOMAIN related_nodes},
                related_nodes,
                related_relationships,
                [page_name |-> page_node.name,
                 control_count |-> Len(SelectSeq(related_nodes,
                                        LAMBDA n : n.node_type = "aspx_control"))],
                70) >>
    ELSE <<>>

RECURSIVE PagePatterns(_, _, _)
PagePatterns(aspx_pages, ns, rels) ==
    IF aspx_pages = <<>> THEN <<>>
    ELSE PagePattern(Head(aspx_pages),
                     <<Head(aspx_pages)>> \o RelatedNodes(ns, Head(aspx_pages).id, rels),
                     SelectSeq(rels, LAMBDA rel : rel.source_id = Head(aspx_pages).id
                                                  \/ rel.target_id = Head(aspx_pages).id))
         \o PagePatterns(Tail(aspx_pages), ns, rels)

_find_page_patterns(ns, rels) ==
    PagePatterns(SelectSeq(ns, LAMBDA n : n.node_type = "aspx_page"), ns, rels)

_identify_patterns(ns, rels) == _find_crud_patterns(ns, rels) \o _find_page_patterns(ns, rels)

-----------------------------------------------------------------------------
(* Engine operations *)

Return(v) == [raised |-> FALSE, error |-> None, value |-> v]
Raise(e)  == [raised |-> TRUE,  error |-> e,    value |-> None]

\* fail = "none": the durable store takes every write; otherwise a write
\* raises and the exception leaves analyze_specific_files (nothing catches it)
\* mutant: a failed write puts the in-memory store back as it was
AnalyzeReturn_Rollback(store, st, saved, found, fail) ==
    [nodes |-> IF fail = "none" THEN st.nodes ELSE store.nodes,
     relationships |-> IF fail = "none" THEN st.relationships ELSE store.relationships,
     patterns |-> store.patterns,
     db_nodes |-> saved.db_nodes, db_rels |-> saved.db_rels,
     result |-> IF fail = "none"
                THEN Return([st.results EXCEPT !.patterns_identified = Len(found)])
                ELSE Raise("sqlite3.OperationalError")]

\* the state and the result once the loop, the save and the pattern pass ran:
\* st is the loop's outcome, saved the tables, found the local list patterns
AnalyzeReturn(store, st, saved, found, fail) ==
    [nodes |-> st.nodes, relationships |-> st.relationships,
     patterns |-> store.patterns,
     db_nodes |-> saved.db_nodes, db_rels |-> saved.db_rels,
     result |-> IF fail = "none"
                THEN Return([st.results EXCEPT !.patterns_identified = Len(found)])
                ELSE Raise("sqlite3.OperationalError")]

AfterLoop(store, db, st, fail) ==
    AnalyzeReturn(store, st,
                  _save_analysis_to_db(db, st.nodes, st.relationships, fail),
                  _identify_patterns(st.nodes, st.relationships), fail)

analyze_specific_files(store, db, file_paths, fail) ==
    AfterLoop(store, db,
              AnalyzeLoop([nodes |-> store.nodes,
                           relationships |-> store.relationships,
                           results |-> NewResults], file_paths),
              fail)

\* mutant: a type is entered once and never counted up
Histogram_Presence(types) == [t \in Range(types) |-> 1]

Histogram(types) ==
    [t \in Range(types) |-> Cardinality({i \in DOMAIN types : types[i] = t})]

get_node_types_summary(ns) == Histogram([i \in DOMAIN ns |-> ns[i].node_type])

get_relationship_types_summary(rels) ==
    Histogram([i \in DOMAIN rels |-> rels[i].relationship_type])

\* CodeNode.to_dict: node_type goes out under the key "type"
NodeToDict(n) ==
    [id |-> n.id, name |-> n.name, type |-> n.node_type, file_path |-> n.file_path,
     line_number |-> n.line_number, metadata |-> n.metadata]

RelToDict(r) == r

PatternToDict(p) ==
    [pattern_id |-> p.pattern_id, pattern_type |-> p.pattern_type, files |-> p.files,
     nodes |-> [i \in DOMAIN p.nodes |-> NodeToDict(p.nodes[i])],
     relationships |-> [i \in DOMAIN p.relationships |-> RelToDict(p.relationships[i])],
     template_data |-> p.template_data, similarity_score |-> p.similarity_score]

export_graph_data(ns, rels, pats) ==
    [nodes |-> [i \in DOMAIN ns |-> NodeToDict(ns[i])],
     relationships |-> [i \in DOMAIN rels |-> RelToDict(rels[i])],
     patterns |-> [i \in DOMAIN pats |-> PatternToDict(pats[i])],
     summary |-> [node_types |-> get_node_types_summary(ns),
                  relationship_types |-> get_relationship_types_summary(rels)]]

\* the find_patterns_by_type branch of handle_call_tool
find_patterns_by_type(pats, pattern_type) ==
    LET matching_patterns == SelectSeq(pats, LAMBDA p : p.pattern_type = pattern_type)
    IN [i \in DOMAIN matching_patterns |-> PatternToDict(matching_patterns[i])]

-----------------------------------------------------------------------------
(* The state machine *)

Store == [nodes |-> nodes, relationships |-> relationships, patterns |-> patterns]
Db    == [db_nodes |-> db_nodes, db_rels |-> db_rels]

\* the record of a call: its name and arguments, the write failure that struck
\* it ("none" when none did), whether the call before it had the same name, and
\* the store as it was when the call came in
Called(name, arguments, fail) ==
    [name |-> name, arguments |-> arguments, fail |-> fail,
     repeated |-> call.name = name,
     pre_nodes |-> nodes, pre_relationships |-> relationships,
     pre_patterns |-> patterns]

SeqsUpTo(S, n) == UNION {[1 .. k -> S] : k \in 0 .. n}

PatternTypes == {"database_crud", "aspx_page", "mvc_controller"}
ToolNames == {"analyze_specific_files", "get_node_types_summary",
              "get_relationship_types_summary", "export_graph_data",
              "find_patterns_by_type"}
OtherNames == {"find_similar_patterns"}

\* no analyze call is in progress
NotRunning ==
    [active |-> FALSE, file_paths |-> <<>>, fail |-> "none", done |-> 0,
     results |-> NewResults]

Init ==
    /\ workspace \in Workspaces
    /\ nodes = <<>>
    /\ relationships = <<>>
    /\ patterns = <<>>
    /\ db_nodes = {}
    /\ db_rels = <<>>
    /\ call = [name |-> None, arguments |-> <<>>, fail |-> "none", repeated |-> FALSE,
               pre_nodes |-> <<>>, pre_relationships |-> <<>>, pre_patterns |-> <<>>]
    /\ result = Return(None)
    /\ calls = [total |-> 0, analyze |-> 0]
    /\ db_failures = 0
    /\ running = NotRunning

\* the state after a call that left the engine as out and gave out.result
Handled(name, arguments, out, is_analyze, fail) ==
    /\ calls.total < MaxCalls
    /\ is_analyze => calls.analyze < MaxAnalyze
    /\ fail # "none" => db_failures < MaxDbFailures
    /\ Len(out.relationships) <= MaxRels
    /\ nodes' = out.nodes
    /\ relationships' = out.relationships
    /\ patterns' = out.patterns
    /\ db_nodes' = out.db_nodes
    /\ db_rels' = out.db_rels
    /\ call' = Called(name, arguments, fail)
    /\ result' = out.result
    /\ calls' = [total |-> calls.total + 1,
                 analyze |-> calls.analyze + (IF is_analyze THEN 1 ELSE 0)]
    /\ db_failures' = db_failures + (IF fail # "none" THEN 1 ELSE 0)
    /\ UNCHANGED <<workspace, running>>

\* a call that only reads the engine
ReadOnly(name, arguments, value) ==
    /\ calls.total < MaxCalls
    /\ call' = Called(name, arguments, "none")
    /\ result' = value
    /\ calls' = [calls EXCEPT !.total = @ + 1]
    /\ UNCHANGED <<workspace, nodes, relationships, patterns, db_nodes, db_rels,
                   db_failures, running>>

CallAnalyzeSpecificFiles(file_paths, fail) ==
    Handled("analyze_specific_files", [file_paths |-> file_paths],
            analyze_specific_files(Store, Db, file_paths, fail),
            TRUE, fail)

CallGetNodeTypesSummary ==
    ReadOnly("get_node_types_summary", <<>>, Return(get_node_types_summary(nodes)))

CallGetRelationshipTypesSummary ==
    ReadOnly("get_relationship_types_summary", <<>>,
             Return(get_relationship_types_summary(relationships)))

Refreshed(found) ==
    Handled("export_graph_data", [output_path |-> "code_graph.json"],
            [nodes |-> nodes, relationships |-> relationships, patterns |-> found,
             db_nodes |-> db_nodes, db_rels |-> db_rels,
             result |-> Return(export_graph_data(nodes, relationships, found))],
            FALSE, "none")

\* mutant: export recomputes self.patterns before it serializes
CallExportGraphData_Refresh == Refreshed(_identify_patterns(nodes, relationships))

CallExportGraphData ==
    ReadOnly("export_graph_data", [output_path |-> "code_graph.json"],
             Return(export_graph_data(nodes, relationships, patterns)))

CallFindPatternsByType(pattern_type) ==
    ReadOnly("find_patterns_by_type", [pattern_type |-> pattern_type],
             Return(find_patterns_by_type(patterns, pattern_type)))

\* mutant: an unknown name gets an empty answer
CallUnknownTool_Silent(name) == ReadOnly(name, <<>>, Return(<<>>))

CallUnknownTool(name) ==
    ReadOnly(name, <<>>, Raise("Unknown tool: " \o name))

Accumulated(all) ==
    Handled("_identify_patterns", <<>>,
            [nodes |-> nodes, relationships |-> relationships, patterns |-> all,
             db_nodes |-> db_nodes, db_rels |-> db_rels, result |-> Return(all)],
            FALSE, "none")

\* mutant: each run extends self.patterns and returns it
IdentifyPatterns_Accumulate ==
    Accumulated(patterns \o _identify_patterns(nodes, relationships))

\* a direct run of _identify_patterns, as the integration test does
IdentifyPatterns ==
    ReadOnly("_identify_patterns", <<>>, Return(_identify_patterns(nodes, relationships)))

Next ==
    \/ \E file_paths \in SeqsUpTo(Paths, MaxPaths) :
          CallAnalyzeSpecificFiles(file_paths, "none")
    \/ \E file_paths \in SeqsUpTo(Paths, MaxPaths) :
          \E fail \in WriteFailures : CallAnalyzeSpecificFiles(file_paths, fail)
    \/ CallGetNodeTypesSummary
    \/ CallGetRelationshipTypesSummary
    \/ CallExportGraphData
    \/ \E t \in PatternTypes : CallFindPatternsByType(t)
    \/ \E name \in OtherNames : CallUnknownTool(name)
    \/ IdentifyPatterns

Spec == Init /\ [][Next]_vars

-----------------------------------------------------------------------------
(* The same machine with an analyze call taken file by file *)

\* the loop state of the call in progress: the store and its analysis_results
LoopState == [nodes |-> nodes, relationships |-> relationships,
              results |-> running.results]

\* mutant: the handler yields to the event loop between two files
Idle_Always == TRUE

\* handle_call_tool and analyze_specific_files hold no await, so the event
\* loop takes up the next call only when the one in progress has returned
Idle == ~running.active

\* the call comes in: analysis_results is set up, no file is read yet
BeginAnalyze(file_paths, fail) ==
    /\ Idle
    /\ calls.total < MaxCalls
    /\ calls.analyze < MaxAnalyze
    /\ fail # "none" => db_failures < MaxDbFailures
    /\ Len(AnalyzeLoop([nodes |-> nodes, relationships |-> relationships,
                        results |-> NewResults], file_paths).relationships) <= MaxRels
    /\ call' = Called("analyze_specific_files", [file_paths |-> file_paths], fail)
    /\ result' = Return(None)
    /\ calls' = [total |-> calls.total + 1, analyze |-> calls.analyze + 1]
    /\ running' = [active |-> TRUE, file_paths |-> file_paths, fail |-> fail,
                   done |-> 0, results |-> NewResults]
    /\ UNCHANGED <<workspace, nodes, relationships, patterns, db_nodes, db_rels,
                   db_failures>>

Stepped(st) ==
    /\ nodes' = st.nodes
    /\ relationships' = st.relationships
    /\ running' = [running EXCEPT !.done = @ + 1, !.results = st.results]
    /\ UNCHANGED <<workspace, patterns, db_nodes, db_rels, call, result, calls,
                   db_failures>>

\* one iteration of the loop: the next path of the list
StepFile ==
    /\ running.active
    /\ running.done < Len(running.file_paths)
    /\ Stepped(AnalyzeFile(LoopState, running.file_paths[running.done + 1]))

Ended(out) ==
    /\ nodes' = out.nodes
    /\ relationships' = out.relationships
    /\ patterns' = out.patterns
    /\ db_nodes' = out.db_nodes
    /\ db_rels' = out.db_rels
    /\ result' = out.result
    /\ db_failures' = db_failures + (IF running.fail # "none" THEN 1 ELSE 0)
    /\ running' = NotRunning
    /\ UNCHANGED <<workspace, call, calls>>

\* the loop is over: the save, the pattern pass and the return
EndAnalyze ==
    /\ running.active
    /\ running.done = Len(running.file_paths)
    /\ Ended(AfterLoop(Store, Db, LoopState, running.fail))

StepNext ==
    \/ \E file_paths \in SeqsUpTo(Paths, MaxPaths) : BeginAnalyze(file_paths, "none")
    \/ \E file_paths \in SeqsUpTo(Paths, MaxPaths) :
          \E fail \in WriteFailures : BeginAnalyze(file_paths, fail)
    \/ StepFile
    \/ EndAnalyze
    \/ Idle /\ CallGetNodeTypesSummary
    \/ Idle /\ CallGetRelationshipTypesSummary
    \/ Idle /\ CallExportGraphData
    \/ Idle /\ \E t \in PatternTypes : CallFindPatternsByType(t)
    \/ Idle /\ \E name \in OtherNames : CallUnknownTool(name)

StepSpec == Init /\ [][StepNext]_vars

-----------------------------------------------------------------------------
(* Claims *)

AnalyzeCalled   == call.name = "analyze_specific_files"
AnalyzeReturned == AnalyzeCalled /\ ~result.raised

\* the loop state a call starts from: the store as it was, fresh results
PreLoop ==
    [nodes |-> call.pre_nodes, relationships |-> call.pre_relationships,
     results |-> NewResults]

\* the in-memory store is the one the loop state st holds
StoreIs(st) == nodes = st.nodes /\ relationships = st.relationships

MissingAt(fps) == {i \in DOMAIN fps : ~Exists(FS, fps[i])}
Present(fps)   == SelectSeq(fps, LAMBDA p : Exists(FS, p))

C1Holds(fps, errors, files_analyzed) ==
    /\ \A i \in MissingAt(fps) :
          \E k \in DOMAIN errors : errors[k] = "File not found: " \o fps[i]
    /\ files_analyzed + Cardinality(MissingAt(fps)) <= Len(fps)
    /\ StoreIs(AnalyzeLoop(PreLoop, Present(fps)))

\* C1: after analyze_specific_files(paths) returns, every path of the list that
\* does not exist has an errors entry "File not found: <path>", is not counted
\* in files_analyzed, and the store is what the call gives without those paths
C1_MissingPathReported ==
    AnalyzeReturned =>
        C1Holds(call.arguments.file_paths, result.value.errors,
                result.value.files_analyzed)

C1_Witness ==
    /\ AnalyzeReturned
    /\ MissingAt(call.arguments.file_paths) # {}
    /\ Present(call.arguments.file_paths) # <<>>
    /\ nodes # call.pre_nodes

\* a path the loop gives up on: it is missing, or analyzing it raises
Fails(p)     == ~Exists(FS, p) \/ Extraction[p].raised
Healthy(fps) == SelectSeq(fps, LAMBDA p : ~Fails(p))

\* C2: a path that is missing or raises does not stop the scan: the store after
\* the call is the store the same call gives on the list without those paths
C2_ScanNeverAborts ==
    AnalyzeCalled => StoreIs(AnalyzeLoop(PreLoop, Healthy(call.arguments.file_paths)))

C2_Witness ==
    /\ AnalyzeCalled
    /\ \E i, j \in DOMAIN call.arguments.file_paths :
          /\ i < j
          /\ Fails(call.arguments.file_paths[i])
          /\ ~Fails(call.arguments.file_paths[j])
          /\ Extraction[call.arguments.file_paths[j]].nodes # <<>>
    /\ nodes # call.pre_nodes

UndecodableAt(fps) == {i \in DOMAIN fps : FS[fps[i]].kind = "binary"}
Decodable(fps)     == SelectSeq(fps, LAMBDA p : FS[p].kind # "binary")

\* the error string e is about path p
ErrorNames(e, p) ==
    \/ e = "File not found: " \o p
    \/ \E x \in {"[Errno 21] Is a directory: '" \o p \o "'",
                 "'utf-8' codec can't decode byte"} :
          e = "Error analyzing " \o p \o ": " \o x

C3Holds(fps, errors, files_analyzed) ==
    /\ \A i \in UndecodableAt(fps) : \E k \in DOMAIN errors : ErrorNames(errors[k], fps[i])
    /\ files_analyzed + Cardinality(UndecodableAt(fps)) <= Len(fps)
    /\ StoreIs(AnalyzeLoop(PreLoop, Decodable(fps)))

\* C3: a file that exists and cannot be decoded has an entry in the call's
\* errors, is not counted in files_analyzed, and adds nothing to the store
C3_UndecodableIsError ==
    AnalyzeReturned =>
        C3Holds(call.arguments.file_paths, result.value.errors,
                result.value.files_analyzed)

\* a and b hold the same node ids, as many nodes, and the same histogram
SameNodeIdentity(a, b) ==
    /\ NodeIds(a) = NodeIds(b)
    /\ Len(a) = Len(b)
    /\ get_node_types_summary(a) = get_node_types_summary(b)

Reanalyzed(st, p) ==
    SameNodeIdentity(st.nodes, AnalyzeLoop([st EXCEPT !.results = NewResults], <<p>>).nodes)

\* every node the files of fps yield has its id in the store ns
AllKnown(fps, ns) ==
    \A i \in DOMAIN fps : Exists(FS, fps[i]) /\ NodeIds(Extraction[fps[i]].nodes) \subseteq NodeIds(ns)

\* C4: from any reachable store, analyzing a path and then analyzing it again
\* leaves the set of node ids, the node count and the node-type histogram as
\* they were after the first analysis; and a call whose files' nodes are all in
\* the store already leaves them as they were
C4_ReanalysisKeepsNodeIds ==
    /\ \A p \in Paths :
          Reanalyzed(AnalyzeLoop([nodes |-> nodes, relationships |-> relationships,
                                  results |-> NewResults], <<p>>), p)
    /\ (AnalyzeCalled /\ AllKnown(call.arguments.file_paths, call.pre_nodes))
          => SameNodeIdentity(call.pre_nodes, nodes)

C4_Witness ==
    /\ AnalyzeCalled
    /\ Len(call.arguments.file_paths) = 1
    /\ AllKnown(call.arguments.file_paths, call.pre_nodes)
    /\ Extraction[call.arguments.file_paths[1]].nodes # <<>>
    /\ result.value.nodes_created > 0
    /\ NodeIds(nodes) = NodeIds(call.pre_nodes)

RelsOf(r) == IF r.raised THEN <<>> ELSE r.relationships

\* what the extractors return for the files of fps that are analyzed, in order
Emitted(fps) ==
    Concat([i \in DOMAIN fps |->
               IF Exists(FS, fps[i]) THEN RelsOf(Extraction[fps[i]]) ELSE <<>>])

\* C5: the relationship list after any call is the list before it followed by
\* every relationship the extractors returned for the call's analyzed files,
\* in order, duplicates and unresolved endpoints included; no call removes,
\* merges or reorders an entry
C5_EdgesOnlyAppended ==
    relationships =
        call.pre_relationships
            \o (IF AnalyzeCalled THEN Emitted(call.arguments.file_paths) ELSE <<>>)

C5_Witness ==
    /\ AnalyzeCalled
    /\ \E i \in DOMAIN call.pre_relationships :
          \E j \in DOMAIN relationships :
             j > Len(call.pre_relationships) /\ relationships[i] = relationships[j]
    /\ \E k \in DOMAIN relationships : relationships[k].target_id \notin NodeIds(nodes)

\* C6: when the durable-store write of an analyze call fails, the call raises,
\* and the in-memory store holds everything the loop ingested from the call's
\* files on top of what earlier calls left
C6_WriteFailureKeepsMemory ==
    (AnalyzeCalled /\ call.fail # "none") =>
        /\ result.raised
        /\ StoreIs(AnalyzeLoop(PreLoop, call.arguments.file_paths))
        /\ NodeIds(call.pre_nodes) \subseteq NodeIds(nodes)
        /\ IsPrefix(call.pre_relationships, relationships)

C6_Witness ==
    /\ AnalyzeCalled
    /\ call.fail # "none"
    /\ result.raised
    /\ call.pre_nodes # <<>>
    /\ Len(nodes) > Len(call.pre_nodes)
    /\ Len(relationships) > Len(call.pre_relationships)

\* C7: after every analyze call that returns, in a run without write failures
\* from an empty durable store, the rows of the durable relationship table are
\* the relationships of the in-memory list, each as many times
C7_DurableMirrorsMemory ==
    (AnalyzeReturned /\ db_failures = 0) =>
        SameBag(db_rels, [i \in DOMAIN relationships |-> RelRow(relationships[i])])

FindAgrees(found, pattern_type) ==
    found # <<>> => result.value = find_patterns_by_type(found, pattern_type)

\* C8: when the current graph has recognized patterns, find_patterns_by_type(t)
\* returns exactly the recognized patterns of type t
C8_FindReturnsRecognized ==
    call.name = "find_patterns_by_type" =>
        FindAgrees(_identify_patterns(nodes, relationships), call.arguments.pattern_type)

PatternIds(ps) == [i \in DOMAIN ps |-> ps[i].pattern_id]

ExportAgrees(exported, found) ==
    Len(exported) = Len(found) /\ PatternIds(exported) = PatternIds(found)

\* C9: the 'patterns' collection of the exported document has as many entries
\* as pattern recognition finds over the current graph, with the same ids
C9_ExportListsPatterns ==
    call.name = "export_graph_data" =>
        ExportAgrees(result.value.patterns, _identify_patterns(nodes, relationships))

StoreKept ==
    /\ nodes = call.pre_nodes
    /\ relationships = call.pre_relationships
    /\ patterns = call.pre_patterns

ReadOnlyNames ==
    {"get_node_types_summary", "get_relationship_types_summary", "export_graph_data"}

\* the value a read-only tool gives holds nothing
EmptyValue(name, value) ==
    IF name = "export_graph_data"
    THEN /\ value.nodes = <<>>
         /\ value.relationships = <<>>
         /\ value.patterns = <<>>
         /\ DOMAIN value.summary.node_types = {}
         /\ DOMAIN value.summary.relationship_types = {}
    ELSE DOMAIN value = {}

\* C11: get_node_types_summary, get_relationship_types_summary and
\* export_graph_data return without error in every state, leave the node map,
\* the relationship list and the pattern list as they were, and on the empty
\* store return empty collections
C11_ReadOnlyFacade ==
    call.name \in ReadOnlyNames =>
        /\ ~result.raised
        /\ StoreKept
        /\ (call.pre_nodes = <<>> /\ call.pre_relationships = <<>>)
              => EmptyValue(call.name, result.value)

C11_Witness ==
    /\ call.name = "export_graph_data"
    /\ ~result.raised
    /\ Len(result.value.nodes) > 0
    /\ _identify_patterns(nodes, relationships) # <<>>

RECURSIVE SumCounts(_, _)
SumCounts(f, S) ==
    IF S = {} THEN 0
    ELSE (LET k == CHOOSE x \in S : TRUE IN f[k] + SumCounts(f, S \ {k}))

\* the sum of the counts of a histogram
Total(f) == SumCounts(f, DOMAIN f)

ExportTotals(doc, node_types, relationship_types) ==
    /\ Len(doc.nodes) = Total(node_types)
    /\ Len(doc.relationships) = Total(relationship_types)

\* C12: in every state the export document has as many 'nodes' as the counts
\* of get_node_types_summary add up to, and as many 'relationships' as the
\* counts of get_relationship_types_summary add up to
C12_ExportAgreesWithSummaries ==
    ExportTotals(export_graph_data(nodes, relationships, patterns),
                 get_node_types_summary(nodes),
                 get_relationship_types_summary(relationships))

C12_Witness ==
    /\ call.name = "export_graph_data"
    /\ Len(result.value.nodes) > Cardinality(DOMAIN result.value.summary.node_types)
    /\ Len(result.value.relationships)
          > Cardinality(DOMAIN result.value.summary.relationship_types)
    /\ Cardinality(DOMAIN result.value.summary.relationship_types) > 1

\* C13: a call of a name that is no registered tool raises an error whose
\* text holds that name, and leaves the node map, the relationship list and
\* the pattern list as they were
C13_UnknownToolFails ==
    call.name \in OtherNames =>
        /\ result.raised
        /\ result.error = "Unknown tool: " \o call.name
        /\ StoreKept

C13_Witness ==
    /\ call.name \in OtherNames
    /\ call.name \notin ToolNames
    /\ result.raised
    /\ nodes # <<>>

UniqueIds(ps) ==
    \A i, j \in DOMAIN ps : i # j => ps[i].pattern_id # ps[j].pattern_id

\* C14: in every state no two patterns of the list pattern recognition returns
\* have the same pattern_id
C14_PatternIdsUnique == UniqueIds(_identify_patterns(nodes, relationships))

\* the prefixes E of the class nodes named E + 'Manager'
ManagerPrefixes(ns) ==
    {StripManager(ns[i].name) :
        i \in {j \in DOMAIN ns : ns[j].node_type = "class" /\ EndsWithManager(ns[j].name)}}

CrudHolds(found, prefixes) ==
    /\ Len(found) = Cardinality(prefixes)
    /\ \A i \in DOMAIN found :
          /\ found[i].pattern_type = "database_crud"
          /\ found[i].template_data.entity_name \in prefixes
    /\ \A E \in prefixes :
          \E i \in DOMAIN found :
             found[i].template_data =
                 [entity_name |-> E, table_name |-> E \o "s",
                  primary_key |-> E \o "ID", manager_class |-> E \o "Manager"]

\* C15: in every state _find_crud_patterns gives one database_crud pattern per
\* distinct prefix E of the class nodes named E + 'Manager', with entity_name E,
\* table_name E + 's', primary_key E + 'ID', manager_class E + 'Manager', and
\* no other pattern
C15_CrudPerManagerPrefix ==
    CrudHolds(_find_crud_patterns(nodes, relationships), ManagerPrefixes(nodes))

C15_Witness ==
    /\ ManagerPrefixes(nodes) = {"Product", "Customer"}
    /\ Len(_find_crud_patterns(nodes, relationships)) = 2
    /\ \E i \in DOMAIN nodes : nodes[i].node_type = "class" /\ nodes[i].name = "Customer"
    /\ \E i \in DOMAIN nodes : nodes[i].node_type = "method"

\* C16: in every state every method node is the target of a 'contains'
\* relationship of the store whose source is the id of the class of the same
\* file that was current when the method was extracted
C16_MethodsContained ==
    \A i \in DOMAIN nodes :
        nodes[i].node_type = "method" =>
            \E k \in DOMAIN relationships :
                /\ relationships[k].relationship_type = "contains"
                /\ relationships[k].target_id = nodes[i].id
                /\ relationships[k].source_id
                      = nodes[i].file_path \o ":class:" \o nodes[i].metadata.class

C16_Witness ==
    /\ AnalyzeCalled
    /\ \E i \in DOMAIN nodes :
          /\ nodes[i].node_type = "method"
          /\ nodes[i].file_path \o ":class:" \o nodes[i].metadata.class \in NodeIds(nodes)
    /\ Len(nodes) > Len(call.pre_nodes)

\* the lines of the procedural-code file p that access a stored procedure after
\* a method declaration inside a class: <<class line, method line, access line>>
DataAccess(p, lines) ==
    {t \in (DOMAIN lines) \X (DOMAIN lines) \X (DOMAIN lines) :
        /\ t[1] < t[2] /\ t[2] < t[3]
        /\ lines[t[1]].class_match # None
        /\ lines[t[2]].method_match # None
        /\ lines[t[3]].db_keyword
        /\ lines[t[3]].quoted # None
        /\ HasProcPrefix(lines[t[3]].quoted)}

AccessEmitted(p, lines, t) ==
    /\ "database:procedure:" \o lines[t[3]].quoted \in NodeIds(nodes)
    /\ \E k \in DOMAIN relationships :
          /\ relationships[k].relationship_type = "database_access"
          /\ relationships[k].target_id = "database:procedure:" \o lines[t[3]].quoted
          /\ relationships[k].source_id \in
                {p \o ":method:" \o lines[t[1]].class_match \o ":" \o lines[t[2]].method_match,
                 p \o ":method:" \o lines[t[1]].class_match \o ":*"}

C18Holds(p, lines) ==
    (Suffix(p) = ".cs" /\ DataAccess(p, lines) # {})
        => \E t \in DataAccess(p, lines) : AccessEmitted(p, lines, t)

\* C18: after an analyze call returns, for every analyzed procedural-code file
\* with a data-access line naming an sp_/usp_ identifier after a method
\* declaration inside a class, the store has the stored-procedure node and a
\* database_access relationship to it from that class's method or its wildcard
C18_DataAccessEdgeEmitted ==
    AnalyzeReturned =>
        \A i \in DOMAIN call.arguments.file_paths :
            C18Holds(call.arguments.file_paths[i], FS[call.arguments.file_paths[i]].lines)

OfType(ns, node_type) == SelectSeq(ns, LAMBDA n : n.node_type = node_type)

C19Holds(procedures, tables) ==
    /\ Len(procedures) = 1
    /\ Len(tables) = 1
    /\ procedures[1].name = "sp_GetCustomers"
    /\ tables[1].name = "Customers"

\* C19: analyzing, on an empty store, the schema file with the lines
\* 'CREATE PROCEDURE sp_GetCustomers' and 'FROM Customers' gives one
\* stored_procedure node named sp_GetCustomers and one table node named
\* Customers, in the letter case of the file
C19_SchemaNamesAsWritten ==
    (/\ AnalyzeReturned
     /\ call.arguments.file_paths = << "examples/sample_procedure.sql" >>
     /\ call.pre_nodes = <<>>)
        => C19Holds(OfType(nodes, "stored_procedure"), OfType(nodes, "table"))

\* some node of the store was extracted from file p
Analyzed(p) == \E i \in DOMAIN nodes : nodes[i].file_path = p

\* C20: once the procedural-code file that calls sp_GetProducts and the schema
\* file that creates it are both analyzed, in either order, the store holds
\* exactly one stored_procedure node
C20_OneProcedureNode ==
    (Analyzed("app/ProductManager.cs") /\ Analyzed("db/procs.sql"))
        => Len(OfType(nodes, "stored_procedure")) = 1

FirstCall(file_paths) ==
    /\ AnalyzeReturned
    /\ call.arguments.file_paths = file_paths
    /\ call.pre_nodes = <<>>
    /\ call.pre_relationships = <<>>

Contains(rels, source_id, target_id) ==
    \E k \in DOMAIN rels :
        /\ rels[k].relationship_type = "contains"
        /\ rels[k].source_id = source_id
        /\ rels[k].target_id = target_id

C21Holds(ns, rels, namespaces, classes, methods) ==
    /\ Len(namespaces) = 1 /\ Len(classes) = 1 /\ Len(methods) = 1
    /\ Len(ns) = 3
    /\ Len(rels) = 2
    /\ Contains(rels, namespaces[1].id, classes[1].id)
    /\ Contains(rels, classes[1].id, methods[1].id)

\* C21: analyzing, on an empty store, a procedural-code file whose matching
\* lines are a namespace, a class and one method declaration gives one
\* namespace, one class and one method node and two 'contains' relationships,
\* namespace to class and class to method
C21_NamespaceClassMethod ==
    FirstCall(<< "examples/customer_manager.cs" >>) =>
        C21Holds(nodes, relationships, OfType(nodes, "namespace"),
                 OfType(nodes, "class"), OfType(nodes, "method"))

C21_Witness ==
    /\ FirstCall(<< "examples/customer_manager.cs" >>)
    /\ result.value.files_analyzed = 1
    /\ Len(nodes) = 3

\* C22: the nodes_created of an analyze call that returns is the growth in the
\* number of node ids of the store over the call, and relationships_found the
\* growth in the length of the relationship list
C22_CountsAreGrowth ==
    AnalyzeReturned =>
        /\ result.value.nodes_created
              = Cardinality(NodeIds(nodes)) - Cardinality(NodeIds(call.pre_nodes))
        /\ result.value.relationships_found
              = Len(relationships) - Len(call.pre_relationships)

Touches(rel, page_id) == rel.source_id = page_id \/ rel.target_id = page_id

Other(rel, page_id) == IF rel.source_id = page_id THEN rel.target_id ELSE rel.source_id

\* the ids of the stored nodes one relationship away from the page
Neighbours(ns, rels, page_id) ==
    {Other(rels[k], page_id) : k \in {j \in DOMAIN rels : Touches(rels[j], page_id)}}
        \cap NodeIds(ns)

PatternsOf(found, page_id) == {i \in DOMAIN found : found[i].nodes[1].id = page_id}

C24Page(found, neighbours, page_id) ==
    /\ (PatternsOf(found, page_id) # {}) <=> (neighbours # {})
    /\ \A i \in PatternsOf(found, page_id) :
          \A k \in 2 .. Len(found[i].nodes) : found[i].nodes[k].id \in neighbours

C24Holds(found, ns, rels, pages) ==
    \A i \in DOMAIN pages :
        C24Page(found, Neighbours(ns, rels, pages[i].id), pages[i].id)

\* C24: in every state _find_page_patterns emits a pattern for a page node
\* exactly when some relationship joins the page to a node of the store, and
\* every node of the pattern other than the page is such a node
C24_PagePatternIffRelated ==
    C24Holds(_find_page_patterns(nodes, relationships), nodes, relationships,
             OfType(nodes, "aspx_page"))

OnlyWildcard(ns, rels, page_id) ==
    /\ Neighbours(ns, rels, page_id) = {}
    /\ \E k \in DOMAIN rels :
          rels[k].relationship_type = "codebehind" /\ rels[k].source_id = page_id

C24_Witness ==
    /\ \E i \in DOMAIN nodes :
          nodes[i].node_type = "aspx_page" /\ OnlyWildcard(nodes, relationships, nodes[i].id)
    /\ Len(_find_page_patterns(nodes, relationships)) = 1
    /\ Len(OfType(nodes, "aspx_page")) = 2

ControlIds(ns) == NodeIds(OfType(ns, "aspx_control"))

C25Holds(found, ns, rels) ==
    \A i \in DOMAIN found :
        /\ found[i].template_data.control_count
              = Cardinality(Neighbours(ns, rels, found[i].nodes[1].id) \cap ControlIds(ns))
        /\ Len(found[i].nodes) = Cardinality(NodeIds(found[i].nodes))

\* C25: in every state the control_count of a page pattern is the number of
\* control nodes of the store joined to the page by a relationship, and the
\* pattern's node list holds no node twice
C25_ControlCountIsDistinct ==
    C25Holds(_find_page_patterns(nodes, relationships), nodes, relationships)

Position(ns, id) == CHOOSE i \in DOMAIN ns : ns[i].id = id

C26Holds(found, ns) ==
    \A i, j \in DOMAIN found :
        i < j => Position(ns, found[i].nodes[1].id) < Position(ns, found[j].nodes[1].id)

\* C26: in every state the patterns of the list pattern recognition returns
\* stand in the order in which their defining nodes (the first manager class of
\* the entity, the page node) stand in the node map
C26_PatternsInNodeOrder == C26Holds(_identify_patterns(nodes, relationships), nodes)

UniqueNodeIds(ns) == Cardinality(NodeIds(ns)) = Len(ns)

\* C27: the node list an extractor returns for a file of an analyze call holds
\* no two nodes of the same id
C27_ExtractorDeduplicates ==
    AnalyzeCalled =>
        \A i \in DOMAIN call.arguments.file_paths :
            Exists(FS, call.arguments.file_paths[i])
                => UniqueNodeIds(Extraction[call.arguments.file_paths[i]].nodes)

\* C29: after an analyze call returns, files_analyzed plus the number of
\* errors is the number of paths given
C29_EveryPathAccounted ==
    AnalyzeReturned =>
        result.value.files_analyzed + Len(result.value.errors)
            = Len(call.arguments.file_paths)

C29_Witness ==
    /\ AnalyzeReturned
    /\ result.value.files_analyzed > 0
    /\ \E k \in DOMAIN result.value.errors :
          \E i \in DOMAIN call.arguments.file_paths :
             FS[call.arguments.file_paths[i]].kind = "directory"
             /\ ErrorNames(result.value.errors[k], call.arguments.file_paths[i])

\* the nodes the extractors return for the files of fps, in order
EmittedNodes(fps) ==
    Concat([i \in DOMAIN fps |->
               IF Exists(FS, fps[i]) THEN Extraction[fps[i]].nodes ELSE <<>>])

\* the node emitted last under id
LastWith(E, id) ==
    E[CHOOSE i \in DOMAIN E : E[i].id = id /\ \A j \in DOMAIN E : E[j].id = id => j <= i]

StoredAs(pre, E, node) ==
    IF node.id \in NodeIds(E) THEN node = LastWith(E, node.id)
    ELSE \E k \in DOMAIN pre : pre[k] = node

C30Holds(pre, E) ==
    /\ NodeIds(nodes) = NodeIds(pre) \cup NodeIds(E)
    /\ Len(nodes) = Cardinality(NodeIds(nodes))
    /\ \A k \in DOMAIN nodes : StoredAs(pre, E, nodes[k])

EitherOrder(st, p, q) ==
    NodeIds(AnalyzeLoop(st, << p, q >>).nodes) = NodeIds(AnalyzeLoop(st, << q, p >>).nodes)

\* C30: after every call the store holds one node per id stored before or
\* emitted by the call, the node under an id the call emitted is the one
\* emitted last, every other node is as it was; and from every state
\* analyzing two files in either order gives the same node ids
C30_UpsertLastWriterWins ==
    /\ C30Holds(call.pre_nodes,
                IF AnalyzeCalled THEN EmittedNodes(call.arguments.file_paths) ELSE <<>>)
    /\ \A p, q \in Paths :
          EitherOrder([nodes |-> nodes, relationships |-> relationships,
                       results |-> NewResults], p, q)

Overwritten(E) ==
    \E i, j \in DOMAIN E :
        /\ i < j
        /\ E[i].id = E[j].id
        /\ E[i] # E[j]
        /\ \E k \in DOMAIN nodes : nodes[k] = LastWith(E, E[i].id)

C30_Witness ==
    /\ AnalyzeCalled
    /\ call.pre_nodes # <<>>
    /\ Overwritten(EmittedNodes(call.arguments.file_paths))

\* the files of the call in progress that the loop has been through
Ingested == SubSeq(running.file_paths, 1, running.done)

\* the store has been left alone since the call handled last came in
Untouched == nodes = call.pre_nodes /\ relationships = call.pre_relationships

C28Running ==
    /\ AnalyzeCalled
    /\ call.arguments.file_paths = running.file_paths
    /\ running.done \in 0 .. Len(running.file_paths)
    /\ StoreIs(AnalyzeLoop(PreLoop, Ingested))

\* C28: while an analyze call is in progress the call handled last is that
\* call, and the store is the store the call found with the first done paths
\* of its list ingested in list order; a call of any other tool is handled
\* only when no analysis is in progress, and it leaves the store it found
C28_NoInterleaving ==
    /\ running.active => C28Running
    /\ (call.name # None /\ ~AnalyzeCalled) => (~running.active /\ Untouched)

\* an analysis of two files, one of them ingested, the store already changed
C28_Witness ==
    /\ running.active
    /\ Len(running.file_paths) = 2
    /\ running.done = 1
    /\ nodes # call.pre_nodes
    /\ C28Running

====
